---- MODULE Spec2Model ----
(***************************************************************************)
(* LoraModelBuilder::build of mistralrs/src/lora_model.rs as a state       *)
(* machine.  One run of build is one behaviour: the descriptor is chosen   *)
(* in Init, every call build makes is one action, and the outcomes of the  *)
(* external collaborators (loader, device probe, hub loading, the          *)
(* pipeline's metadata, other holders of the pipeline mutex) are chosen    *)
(* nondeterministically.                                                   *)
(*                                                                         *)
(* Option<T> is modelled as a set with at most one element:                *)
(* None is {} and Some(x) is {x}.                                          *)
(***************************************************************************)
EXTENDS Naturals, Sequences, FiniteSets

VARIABLES
    desc,              \* the TextModelBuilder / VisionModelBuilder moved into build
    pc,                \* position of build in its body
    trace,             \* the calls build has made so far, in order
    loader_args,       \* arguments given to the loader builder
    probe_seed,        \* Option: the argument best_device was called with
    probed,            \* Option: the device best_device returned
    load_args,         \* arguments given to load_model_from_hf
    pipeline,          \* the loaded pipeline (its metadata)
    lock_owner,        \* who holds the pipeline mutex
    config,            \* the local `config`: cache configuration copied under the lock
    scheduler_method,  \* the local `scheduler_method`
    runner,            \* the local `runner` (a MistralRsBuilder)
    result,            \* how build ended
    err                \* which `?` returned the error

vars == << desc, pc, trace, loader_args, probe_seed, probed, load_args, pipeline,
           lock_owner, config, scheduler_method, runner, result, err >>

----------------------------------------------------------------------------
\* Bounds of the model.

\* max_num_seqs ranges over 0 .. CapacityMax + MaxNumSeqsOver
MaxNumSeqsOver == 1

\* prefix_cache_n ranges over None and Some(0) .. Some(MaxPrefixCacheN)
MaxPrefixCacheN == 1

----------------------------------------------------------------------------
\* Value domains.

None == {}

Some(x) == {x}

\* Option<T> over a set of values
OptionOf(S) == {None} \cup {Some(x) : x \in S}

\* The value of Some(x)
Unwrap(o) == CHOOSE x \in o : TRUE

Modalities == {"Text", "Vision"}

Devices == {"Cpu", "Cuda"}

\* paged-attention / cache configurations
CacheConfigs == {"cfgA", "cfgB"}

ToolNames == {"search", "calc"}

BoundToolNames == {"bound"}

\* The largest value the scheduler's capacity type holds
CapacityMax == 2

MaxNumSeqsValues == 0 .. (CapacityMax + MaxNumSeqsOver)

PrefixCacheValues == 0 .. MaxPrefixCacheN

\* The fields of TextModelBuilder / VisionModelBuilder that build reads and
\* that decide its control flow or the runner's configuration.
AllDescriptors ==
    [ modality : Modalities,
      with_logging : BOOLEAN,
      no_kv_cache : BOOLEAN,
      device : OptionOf(Devices),
      force_cpu : BOOLEAN,
      paged_attn_cfg : OptionOf(CacheConfigs),
      max_num_seqs : MaxNumSeqsValues,
      prefix_cache_n : OptionOf(PrefixCacheValues),
      search_callback : BOOLEAN,
      tool_callbacks : SUBSET ToolNames,
      tool_callbacks_with_tools : SUBSET BoundToolNames ]

\* The text arm reads no table of callbacks bound to a tool
Descriptors ==
    {d \in AllDescriptors : d.modality = "Text" => d.tool_callbacks_with_tools = {}}

NoArgs == [kind |-> "none"]

NoPipeline == [kind |-> "none"]

NoScheduler == [kind |-> "none"]

NoRunner == [kind |-> "none"]

----------------------------------------------------------------------------
\* Pure helpers of build.

\* i is a position of seq holding the call named c
Calls(seq, c) == {i \in 1 .. Len(seq) : seq[i].call = c}

\* One entry of the trace: the call made and whether it succeeded
Call(c, ok) == [call |-> c, ok |-> ok]

\* max_num_seqs.try_into(): the value fits the scheduler's capacity type
FitsCapacity(n) == n <= CapacityMax

\* max_num_seqs.try_into(): Some(value) on success, None on a conversion error
TryInto(n) == IF FitsCapacity(n) THEN Some(n) ELSE None

\* SchedulerConfig::DefaultScheduler { method: DefaultSchedulerMethod::Fixed(n) }
DefaultScheduler(n) == [kind |-> "DefaultScheduler", fixed_slot_count |-> n]

\* SchedulerConfig::PagedAttentionMeta { max_num_seqs, config }
PagedAttentionMeta(n, c) ==
    [kind |-> "PagedAttentionMeta", max_num_seqs |-> n, cache_config |-> c]

\* The `?` of try_into() taken: no scheduler, build returns the conversion error
ConversionError == [kind |-> "ConversionError"]

\* DefaultScheduler { Fixed(max_num_seqs.try_into()?) }
FixedScheduler(d) ==
    LET r == TryInto(d.max_num_seqs)
    IN  IF r = None THEN ConversionError ELSE DefaultScheduler(Unwrap(r))

\* Mutant of TextPagedScheduler: the requested configuration is used, not the
\* one the pipeline reports
TextPagedSchedulerRequested(d, c) ==
    PagedAttentionMeta(d.max_num_seqs, Unwrap(d.paged_attn_cfg))

\* Text, Some(_) arm: the scheduler built from the unwrapped, cloned configuration
TextPagedScheduler(d, c) == PagedAttentionMeta(d.max_num_seqs, Unwrap(c))

\* Mutant of VisionPagedScheduler: an absent configuration is replaced by the
\* requested one instead of falling back to the default scheduler
VisionPagedSchedulerNoFallback(d, c) ==
    PagedAttentionMeta(d.max_num_seqs,
                       IF c # None THEN Unwrap(c) ELSE Unwrap(d.paged_attn_cfg))

\* Vision, Some(_) arm: `if let Some(config) = config { Paged } else { Fixed }`
VisionPagedScheduler(d, c) ==
    IF c # None
    THEN PagedAttentionMeta(d.max_num_seqs, Unwrap(c))
    ELSE FixedScheduler(d)

\* device.unwrap_or(<probed device>): the device given to load_model_from_hf
ResolveDevice(device, best) == IF device # None THEN Unwrap(device) ELSE Unwrap(best)

\* What best_device(force_cpu)? can evaluate to: a device, or the error "Err"
BestDeviceOutcomes == {"Err"} \cup Devices

\* NormalLoaderBuilder::new(..., text_model.no_kv_cache, ...).with_lora(..)
TextLoaderArgs(d) ==
    [kind |-> "NormalLoaderBuilder", no_kv_cache |-> d.no_kv_cache, with_lora |-> TRUE]

\* VisionLoaderBuilder::new(config, chat_template, tokenizer_json, model_id,
\* jinja_explicit).with_lora(..): no cache-disable argument
VisionLoaderArgs(d) == [kind |-> "VisionLoaderBuilder", with_lora |-> TRUE]

\* Text: `.build(loader_type)?` can fail; Vision: `.build(loader_type);` cannot
LoaderBuildOutcomes(modality) == IF modality = "Text" THEN BOOLEAN ELSE {TRUE}

\* Mutant of NoKvCacheToggle: the vision arm passes the descriptor's flag too
NoKvCacheToggleFromDescriptor(d) == d.no_kv_cache

\* The argument of with_no_kv_cache: text_model.no_kv_cache, or false for vision
NoKvCacheToggle(d) == IF d.modality = "Text" THEN d.no_kv_cache ELSE FALSE

\* Mutant of NoPrefixCacheToggle: is_some() in place of is_none()
NoPrefixCacheToggleInverted(d) == d.prefix_cache_n # None

\* The argument of with_no_prefix_cache: prefix_cache_n.is_none()
NoPrefixCacheToggle(d) == d.prefix_cache_n = None

\* `?` on an Err: build returns the error to its caller
Fail(kind) ==
    /\ result' = "Err"
    /\ err' = kind
    /\ pc' = "done"

----------------------------------------------------------------------------
\* The state at the call of build.

Init ==
    /\ desc \in Descriptors
    /\ pc = "logging"
    /\ trace = << >>
    /\ loader_args = NoArgs
    /\ probe_seed = None
    /\ probed = None
    /\ load_args = NoArgs
    /\ pipeline = NoPipeline
    /\ lock_owner = "free"
    /\ config = None
    /\ scheduler_method = NoScheduler
    /\ runner = NoRunner
    /\ result = "pending"
    /\ err = "none"

----------------------------------------------------------------------------
\* The steps of build, in program order.

\* Mutant of InitializeLogging: the with_logging test is dropped
InitializeLoggingUnconditional ==
    /\ pc = "logging"
    /\ trace' = Append(trace, Call("initialize_logging", TRUE))
    /\ pc' = "loader"
    /\ UNCHANGED << desc, loader_args, probe_seed, probed, load_args, pipeline,
                    lock_owner, config, scheduler_method, runner, result, err >>

\* if with_logging { initialize_logging(); }
InitializeLogging ==
    /\ pc = "logging"
    /\ trace' = IF desc.with_logging
                THEN Append(trace, Call("initialize_logging", TRUE))
                ELSE trace
    /\ pc' = "loader"
    /\ UNCHANGED << desc, loader_args, probe_seed, probed, load_args, pipeline,
                    lock_owner, config, scheduler_method, runner, result, err >>

\* NormalLoaderBuilder / VisionLoaderBuilder ::new(..).with_lora(..).build(..)
BuildLoader ==
    /\ pc = "loader"
    /\ loader_args' = IF desc.modality = "Text"
                      THEN TextLoaderArgs(desc)
                      ELSE VisionLoaderArgs(desc)
    /\ \E ok \in LoaderBuildOutcomes(desc.modality) :
          /\ trace' = Append(trace, Call("loader_build", ok))
          /\ IF ok
             THEN pc' = "probe" /\ UNCHANGED << result, err >>
             ELSE Fail("loader")
    /\ UNCHANGED << desc, probe_seed, probed, load_args, pipeline, lock_owner, config,
                    scheduler_method, runner >>

\* best_device(force_cpu)?  -- the argument of unwrap_or, evaluated before
\* unwrap_or is called, whatever `device` holds
BestDevice ==
    /\ pc = "probe"
    /\ probe_seed' = Some(desc.force_cpu)
    /\ \E out \in BestDeviceOutcomes :
          /\ trace' = Append(trace, Call("best_device", out # "Err"))
          /\ IF out # "Err"
             THEN probed' = Some(out) /\ pc' = "load" /\ UNCHANGED << result, err >>
             ELSE probed' = probed /\ Fail("device")
    /\ UNCHANGED << desc, loader_args, load_args, pipeline, lock_owner, config,
                    scheduler_method, runner >>

\* Mutant of LoadModel: a failed load is tried again instead of returned
LoadModelRetried ==
    /\ pc = "load"
    /\ load_args' = [ kind |-> "load_model_from_hf",
                      device |-> ResolveDevice(desc.device, probed),
                      silent |-> ~desc.with_logging,
                      paged_attn_cfg |-> desc.paged_attn_cfg ]
    /\ \/ \E cc \in OptionOf(CacheConfigs) :
             /\ pipeline' = [kind |-> "Pipeline", cache_config |-> cc]
             /\ trace' = Append(trace, Call("load_model_from_hf", TRUE))
             /\ pc' = "select"
       \/ /\ Calls(trace, "load_model_from_hf") = {}
          /\ pipeline' = pipeline
          /\ trace' = Append(trace, Call("load_model_from_hf", FALSE))
          /\ pc' = "load"
    /\ UNCHANGED << desc, loader_args, probe_seed, probed, lock_owner, config,
                    scheduler_method, runner, result, err >>

\* loader.load_model_from_hf(.., &device, !with_logging, .., paged_attn_cfg)?
LoadModel ==
    /\ pc = "load"
    /\ load_args' = [ kind |-> "load_model_from_hf",
                      device |-> ResolveDevice(desc.device, probed),
                      silent |-> ~desc.with_logging,
                      paged_attn_cfg |-> desc.paged_attn_cfg ]
    /\ \/ \E cc \in OptionOf(CacheConfigs) :
             /\ pipeline' = [kind |-> "Pipeline", cache_config |-> cc]
             /\ trace' = Append(trace, Call("load_model_from_hf", TRUE))
             /\ pc' = "select"
             /\ UNCHANGED << result, err >>
       \/ /\ pipeline' = pipeline
          /\ trace' = Append(trace, Call("load_model_from_hf", FALSE))
          /\ Fail("load")
    /\ UNCHANGED << desc, loader_args, probe_seed, probed, lock_owner, config,
                    scheduler_method, runner >>

\* Mutant of SelectDefault: the None arm looks at the pipeline's cache
\* configuration and selects the paged scheduler when there is one
SelectDefaultFromPipeline ==
    /\ pc = "select"
    /\ desc.paged_attn_cfg = None
    /\ LET s == VisionPagedScheduler(desc, pipeline.cache_config)
       IN  /\ trace' = IF s.kind = "PagedAttentionMeta"
                       THEN trace
                       ELSE Append(trace, Call("try_into", s # ConversionError))
           /\ IF s # ConversionError
              THEN /\ scheduler_method' = s
                   /\ pc' = "new_runner"
                   /\ UNCHANGED << result, err >>
              ELSE /\ scheduler_method' = scheduler_method
                   /\ Fail("conversion")
    /\ UNCHANGED << desc, loader_args, probe_seed, probed, load_args, pipeline,
                    lock_owner, config, runner >>

\* match paged_attn_cfg { None => DefaultScheduler { Fixed(try_into()?) } }
SelectDefault ==
    /\ pc = "select"
    /\ desc.paged_attn_cfg = None
    /\ LET s == FixedScheduler(desc)
       IN  /\ trace' = Append(trace, Call("try_into", s # ConversionError))
           /\ IF s # ConversionError
              THEN /\ scheduler_method' = s
                   /\ pc' = "new_runner"
                   /\ UNCHANGED << result, err >>
              ELSE /\ scheduler_method' = scheduler_method
                   /\ Fail("conversion")
    /\ UNCHANGED << desc, loader_args, probe_seed, probed, load_args, pipeline,
                    lock_owner, config, runner >>

\* match paged_attn_cfg { Some(_) => pipeline.lock().await ... }: the guard is taken
LockPipeline ==
    /\ pc = "select"
    /\ desc.paged_attn_cfg # None
    /\ lock_owner = "free"
    /\ lock_owner' = "build"
    /\ trace' = Append(trace, Call("lock", TRUE))
    /\ pc' = "read"
    /\ UNCHANGED << desc, loader_args, probe_seed, probed, load_args, pipeline, config,
                    scheduler_method, runner, result, err >>

\* Mutant of ReadMetadata: the text arm returns an error for a missing
\* configuration instead of unwrapping it
ReadMetadataReturnsError ==
    /\ pc = "read"
    /\ lock_owner' = "free"
    /\ IF desc.modality = "Text" /\ pipeline.cache_config = None
       THEN /\ trace' = Append(trace, Call("get_metadata", TRUE))
            /\ Fail("metadata")
            /\ UNCHANGED config
       ELSE /\ trace' = Append(trace, Call("get_metadata", TRUE))
            /\ config' = pipeline.cache_config
            /\ pc' = "derive"
            /\ UNCHANGED << result, err >>
    /\ UNCHANGED << desc, loader_args, probe_seed, probed, load_args, pipeline,
                    scheduler_method, runner >>

\* Mutant of ReadMetadata: the guard is bound to a local and lives to the end
\* of build
ReadMetadataKeepsGuard ==
    /\ pc = "read"
    /\ IF desc.modality = "Text" /\ pipeline.cache_config = None
       THEN /\ trace' = trace \o << Call("get_metadata", TRUE), Call("unwrap", FALSE) >>
            /\ result' = "panic"
            /\ pc' = "done"
            /\ lock_owner' = "free"
            /\ UNCHANGED << config, err >>
       ELSE /\ trace' = Append(trace, Call("get_metadata", TRUE))
            /\ config' = pipeline.cache_config
            /\ pc' = "derive"
            /\ UNCHANGED << lock_owner, result, err >>
    /\ UNCHANGED << desc, loader_args, probe_seed, probed, load_args, pipeline,
                    scheduler_method, runner >>

\* .get_metadata().cache_config.as_ref() then .unwrap().clone() (Text) or
\* .cloned() (Vision); the guard is dropped at the end of the let statement,
\* or by unwinding when unwrap panics
ReadMetadata ==
    /\ pc = "read"
    /\ lock_owner' = "free"
    /\ IF desc.modality = "Text" /\ pipeline.cache_config = None
       THEN /\ trace' = trace \o << Call("get_metadata", TRUE), Call("unwrap", FALSE) >>
            /\ result' = "panic"
            /\ pc' = "done"
            /\ UNCHANGED << config, err >>
       ELSE /\ trace' = Append(trace, Call("get_metadata", TRUE))
            /\ config' = pipeline.cache_config
            /\ pc' = "derive"
            /\ UNCHANGED << result, err >>
    /\ UNCHANGED << desc, loader_args, probe_seed, probed, load_args, pipeline,
                    scheduler_method, runner >>

\* The scheduler built from the copied configuration, after the guard is gone
DerivePolicy ==
    /\ pc = "derive"
    /\ LET s == IF desc.modality = "Text"
                THEN TextPagedScheduler(desc, config)
                ELSE VisionPagedScheduler(desc, config)
       IN  /\ trace' = IF s.kind = "PagedAttentionMeta"
                       THEN trace
                       ELSE Append(trace, Call("try_into", s # ConversionError))
           /\ IF s # ConversionError
              THEN /\ scheduler_method' = s
                   /\ pc' = "new_runner"
                   /\ UNCHANGED << result, err >>
              ELSE /\ scheduler_method' = scheduler_method
                   /\ Fail("conversion")
    /\ UNCHANGED << desc, loader_args, probe_seed, probed, load_args, pipeline,
                    lock_owner, config, runner >>

\* MistralRsBuilder::new(pipeline, scheduler_method, throughput_logging, bert)
NewRunner ==
    /\ pc = "new_runner"
    /\ runner' = [ kind |-> "MistralRsBuilder",
                   pipeline |-> pipeline,
                   scheduler_method |-> scheduler_method,
                   search_callback |-> FALSE,
                   tool_callbacks |-> {},
                   tool_callbacks_with_tools |-> {},
                   no_kv_cache |-> None,
                   no_prefix_cache |-> None,
                   prefix_cache_n |-> None ]
    /\ trace' = Append(trace, Call("MistralRsBuilder_new", TRUE))
    /\ pc' = "search_cb"
    /\ UNCHANGED << desc, loader_args, probe_seed, probed, load_args, pipeline,
                    lock_owner, config, scheduler_method, result, err >>

\* if let Some(cb) = search_callback { runner.with_search_callback(cb) }
RegisterSearchCallback ==
    /\ pc = "search_cb"
    /\ IF desc.search_callback
       THEN /\ runner' = [runner EXCEPT !.search_callback = TRUE]
            /\ trace' = Append(trace, Call("with_search_callback", TRUE))
       ELSE UNCHANGED << runner, trace >>
    /\ pc' = "tool_cbs"
    /\ UNCHANGED << desc, loader_args, probe_seed, probed, load_args, pipeline,
                    lock_owner, config, scheduler_method, result, err >>

\* for (name, cb) in &tool_callbacks { runner.with_tool_callback(name, cb) }
RegisterToolCallbacks ==
    /\ pc = "tool_cbs"
    /\ runner' = [runner EXCEPT !.tool_callbacks = @ \cup desc.tool_callbacks]
    /\ trace' = IF desc.tool_callbacks # {}
                THEN Append(trace, Call("with_tool_callback", TRUE))
                ELSE trace
    /\ pc' = IF desc.modality = "Vision" THEN "bound_tool_cbs" ELSE "toggles"
    /\ UNCHANGED << desc, loader_args, probe_seed, probed, load_args, pipeline,
                    lock_owner, config, scheduler_method, result, err >>

\* Vision only: for (name, cwt) in &tool_callbacks_with_tools
\*   { runner.with_tool_callback_and_tool(name, cwt.callback, cwt.tool) }
RegisterToolCallbacksWithTools ==
    /\ pc = "bound_tool_cbs"
    /\ runner' = [runner EXCEPT
                    !.tool_callbacks_with_tools = @ \cup desc.tool_callbacks_with_tools]
    /\ trace' = IF desc.tool_callbacks_with_tools # {}
                THEN Append(trace, Call("with_tool_callback_and_tool", TRUE))
                ELSE trace
    /\ pc' = "toggles"
    /\ UNCHANGED << desc, loader_args, probe_seed, probed, load_args, pipeline,
                    lock_owner, config, scheduler_method, result, err >>

\* runner.with_no_kv_cache(..).with_no_prefix_cache(prefix_cache_n.is_none())
ApplyCacheToggles ==
    /\ pc = "toggles"
    /\ runner' = [runner EXCEPT !.no_kv_cache = Some(NoKvCacheToggle(desc)),
                                !.no_prefix_cache = Some(NoPrefixCacheToggle(desc))]
    /\ trace' = trace \o << Call("with_no_kv_cache", TRUE),
                            Call("with_no_prefix_cache", TRUE) >>
    /\ pc' = "prefix_n"
    /\ UNCHANGED << desc, loader_args, probe_seed, probed, load_args, pipeline,
                    lock_owner, config, scheduler_method, result, err >>

\* if let Some(n) = prefix_cache_n { runner = runner.with_prefix_cache_n(n) }
ApplyPrefixCacheN ==
    /\ pc = "prefix_n"
    /\ IF desc.prefix_cache_n # None
       THEN /\ runner' = [runner EXCEPT !.prefix_cache_n = Some(Unwrap(desc.prefix_cache_n))]
            /\ trace' = Append(trace, Call("with_prefix_cache_n", TRUE))
       ELSE UNCHANGED << runner, trace >>
    /\ pc' = "finalize"
    /\ UNCHANGED << desc, loader_args, probe_seed, probed, load_args, pipeline,
                    lock_owner, config, scheduler_method, result, err >>

\* Ok(Model::new(runner.build().await))
FinalizeRunner ==
    /\ pc = "finalize"
    /\ trace' = Append(trace, Call("runner_build", TRUE))
    /\ result' = "Ok"
    /\ pc' = "done"
    /\ UNCHANGED << desc, loader_args, probe_seed, probed, load_args, pipeline,
                    lock_owner, config, scheduler_method, runner, err >>

----------------------------------------------------------------------------
\* The pipeline is an Arc<Mutex<..>>: whatever else holds a clone of it may take
\* the mutex while build is about to ask for it, and release it at any time.

OtherLock ==
    /\ pipeline # NoPipeline
    /\ pc = "select"
    /\ lock_owner = "free"
    /\ lock_owner' = "other"
    /\ UNCHANGED << desc, pc, trace, loader_args, probe_seed, probed, load_args, pipeline,
                    config, scheduler_method, runner, result, err >>

OtherUnlock ==
    /\ lock_owner = "other"
    /\ lock_owner' = "free"
    /\ UNCHANGED << desc, pc, trace, loader_args, probe_seed, probed, load_args, pipeline,
                    config, scheduler_method, runner, result, err >>

----------------------------------------------------------------------------

Next ==
    \/ InitializeLogging
    \/ BuildLoader
    \/ BestDevice
    \/ LoadModel
    \/ SelectDefault
    \/ LockPipeline
    \/ ReadMetadata
    \/ DerivePolicy
    \/ NewRunner
    \/ RegisterSearchCallback
    \/ RegisterToolCallbacks
    \/ RegisterToolCallbacksWithTools
    \/ ApplyCacheToggles
    \/ ApplyPrefixCacheN
    \/ FinalizeRunner
    \/ OtherLock
    \/ OtherUnlock

Spec == Init /\ [][Next]_vars

----------------------------------------------------------------------------
\* Positions of build.

\* build holds a scheduler_method and is constructing or configuring the runner
RunnerStages ==
    {"new_runner", "search_cb", "tool_cbs", "bound_tool_cbs", "toggles", "prefix_n",
     "finalize"}

\* Scheduler selection is over and did not end build
PastSelection == pc \in RunnerStages \/ result = "Ok"

\* The calls of build that can return an error, and the error each one returns
FallibleCalls == {"loader_build", "best_device", "load_model_from_hf", "try_into"}

ErrorOf(c) ==
    CASE c = "loader_build" -> "loader"
      [] c = "best_device" -> "device"
      [] c = "load_model_from_hf" -> "load"
      [] c = "try_into" -> "conversion"

\* The calls that come after the fallible stages of the loader
LaterCalls ==
    {"MistralRsBuilder_new", "with_search_callback", "with_tool_callback",
     "with_tool_callback_and_tool", "with_no_kv_cache", "with_no_prefix_cache",
     "with_prefix_cache_n", "runner_build"}

\* The pipeline is loaded and reports no cache configuration
ReportsNoConfig == pipeline # NoPipeline /\ pipeline.cache_config = None

\* The pipeline is loaded and reports a cache configuration
ReportsConfig == pipeline # NoPipeline /\ pipeline.cache_config # None

----------------------------------------------------------------------------
\* Scheduler selection.

\* C1: with paged_attn_cfg = None, in either modality and whatever cache
\* configuration the pipeline reports, the scheduler build selects, hands to the
\* runner and finishes with is DefaultScheduler with fixed_slot_count equal to
\* max_num_seqs; it is never PagedAttentionMeta, and the pipeline is never locked.
NoPagedRequestYieldsDefaultScheduler ==
    desc.paged_attn_cfg = None =>
        /\ scheduler_method \in {NoScheduler, DefaultScheduler(desc.max_num_seqs)}
        /\ PastSelection => scheduler_method = DefaultScheduler(desc.max_num_seqs)
        /\ runner # NoRunner =>
              runner.scheduler_method = DefaultScheduler(desc.max_num_seqs)

\* A vision build without a paged-attention request, on a pipeline that does
\* report a cache configuration, finished with the default scheduler
NoPagedRequestWitness ==
    /\ desc.modality = "Vision"
    /\ desc.paged_attn_cfg = None
    /\ ReportsConfig
    /\ result = "Ok"
    /\ desc.max_num_seqs = CapacityMax
    /\ runner.scheduler_method = DefaultScheduler(CapacityMax)

\* C2: with paged_attn_cfg = Some(c) and a pipeline that reports the cache
\* configuration X, in either modality and for every max_num_seqs, selection
\* cannot fail and the scheduler is PagedAttentionMeta with the descriptor's
\* max_num_seqs and the configuration X the pipeline reports (not the requested c).
PagedRequestWithConfigYieldsPagedMeta ==
    (desc.paged_attn_cfg # None /\ ReportsConfig) =>
        LET meta == PagedAttentionMeta(desc.max_num_seqs, Unwrap(pipeline.cache_config))
        IN  /\ scheduler_method \in {NoScheduler, meta}
            /\ PastSelection => scheduler_method = meta
            /\ runner # NoRunner => runner.scheduler_method = meta
            /\ pc = "done" => result = "Ok"

\* A text build that requested cfgA, loaded a pipeline reporting cfgB, with a
\* max_num_seqs the capacity type does not hold, finished with the paged scheduler
PagedRequestWitness ==
    /\ desc.modality = "Text"
    /\ desc.paged_attn_cfg = Some("cfgA")
    /\ ReportsConfig
    /\ pipeline.cache_config = Some("cfgB")
    /\ ~FitsCapacity(desc.max_num_seqs)
    /\ result = "Ok"
    /\ runner.scheduler_method = PagedAttentionMeta(desc.max_num_seqs, "cfgB")

\* C3 as stated: a vision build with paged_attn_cfg = Some(c) on a pipeline
\* that reports no cache configuration never fails, for every max_num_seqs: it
\* ends with DefaultScheduler with fixed_slot_count = max_num_seqs.
VisionFallbackNeverFails ==
    (desc.modality = "Vision" /\ desc.paged_attn_cfg # None /\ ReportsNoConfig) =>
        /\ result \notin {"Err", "panic"}
        /\ PastSelection => scheduler_method = DefaultScheduler(desc.max_num_seqs)

\* C3 amended: a vision build with paged_attn_cfg = Some(c) on a pipeline that
\* reports no cache configuration never panics and never selects
\* PagedAttentionMeta; when max_num_seqs converts to the capacity type it
\* finishes with DefaultScheduler with fixed_slot_count = max_num_seqs, and when
\* it does not convert build returns the conversion error, with no scheduler.
VisionFallbackDefaultOrConversionError ==
    (desc.modality = "Vision" /\ desc.paged_attn_cfg # None /\ ReportsNoConfig) =>
        /\ result # "panic"
        /\ scheduler_method \in {NoScheduler, DefaultScheduler(desc.max_num_seqs)}
        /\ PastSelection => scheduler_method = DefaultScheduler(desc.max_num_seqs)
        /\ pc = "done" =>
              IF TryInto(desc.max_num_seqs) # None
              THEN result = "Ok"
              ELSE result = "Err" /\ err = "conversion" /\ scheduler_method = NoScheduler

\* A vision build that asked for paged attention, found no cache configuration
\* and finished on the default scheduler
VisionFallbackWitness ==
    /\ desc.modality = "Vision"
    /\ desc.paged_attn_cfg # None
    /\ ReportsNoConfig
    /\ desc.max_num_seqs = CapacityMax
    /\ result = "Ok"
    /\ runner.scheduler_method = DefaultScheduler(CapacityMax)

\* C4: a text build with paged_attn_cfg = Some(c) on a pipeline that reports no
\* cache configuration ends in a panic: it returns neither Ok nor Err, selects
\* no scheduler (no fallback to DefaultScheduler) and constructs no runner.
TextMissingConfigPanics ==
    (desc.modality = "Text" /\ desc.paged_attn_cfg # None /\ ReportsNoConfig) =>
        /\ result \in {"pending", "panic"}
        /\ pc \in {"select", "read", "done"}
        /\ pc = "done" => result = "panic"
        /\ scheduler_method = NoScheduler
        /\ runner = NoRunner
        /\ Calls(trace, "try_into") = {}

\* The text build panicked on the missing cache configuration
TextPanicWitness ==
    /\ desc.modality = "Text"
    /\ desc.paged_attn_cfg # None
    /\ ReportsNoConfig
    /\ result = "panic"
    /\ Calls(trace, "unwrap") # {}

----------------------------------------------------------------------------
\* Error propagation.

\* C5: every fallible call (loader construction, device probe, hub loading,
\* max_num_seqs conversion) is made at most once; a failed one is the last call
\* build makes: build has returned that call's error, has selected no scheduler
\* and constructed no runner; build returns Ok only with every call succeeded
\* and the loader, the probe and the loading all done.
FailureEndsBuildWithoutRetry ==
    /\ \A c \in FallibleCalls : Cardinality(Calls(trace, c)) <= 1
    /\ \A i \in 1 .. Len(trace) :
          (trace[i].call \in FallibleCalls /\ ~trace[i].ok) =>
              /\ i = Len(trace)
              /\ pc = "done"
              /\ result = "Err"
              /\ err = ErrorOf(trace[i].call)
              /\ scheduler_method = NoScheduler
              /\ runner = NoRunner
    /\ result = "Err" =>
          /\ trace # << >>
          /\ trace[Len(trace)].call \in FallibleCalls
          /\ ~trace[Len(trace)].ok
          /\ \A c \in LaterCalls : Calls(trace, c) = {}
    /\ result = "Ok" =>
          /\ \A i \in 1 .. Len(trace) : trace[i].ok
          /\ \A c \in {"loader_build", "best_device", "load_model_from_hf", "runner_build"} :
                Calls(trace, c) # {}
          /\ runner # NoRunner
          /\ err = "none"

\* Hub loading failed after the loader and the probe had succeeded
LoadFailureWitness ==
    /\ result = "Err"
    /\ err = "load"
    /\ Len(trace) >= 3
    /\ trace[Len(trace)] = Call("load_model_from_hf", FALSE)
    /\ runner = NoRunner

----------------------------------------------------------------------------
\* Logging.

\* C6: in both modalities initialize_logging is called if and only if
\* with_logging is set; when called it is called once and before the loader is
\* constructed, the device probed and the model loaded; without the flag it is
\* never called.
LoggingOnceBeforeLoaderIffRequested ==
    /\ Cardinality(Calls(trace, "initialize_logging")) =
          IF desc.with_logging /\ pc # "logging" THEN 1 ELSE 0
    /\ \A i \in Calls(trace, "initialize_logging") :
          \A j \in 1 .. Len(trace) :
              trace[j].call \in {"loader_build", "best_device", "load_model_from_hf"}
                  => i < j

\* A vision build with logging requested has loaded its model
LoggingWitness ==
    /\ desc.modality = "Vision"
    /\ desc.with_logging
    /\ Calls(trace, "initialize_logging") = {1}
    /\ Calls(trace, "load_model_from_hf") # {}

----------------------------------------------------------------------------
\* The pipeline lock.

\* C7: build takes the pipeline lock at most once, only after loading succeeded
\* and only with paged attention requested; it holds it for the metadata read
\* alone: the call after lock is get_metadata, and the lock is released before
\* the scheduler is derived, the runner constructed, configured and finalized,
\* and before build ends.
LockHeldOnlyForMetadataRead ==
    /\ Cardinality(Calls(trace, "lock")) <= 1
    /\ \A i \in Calls(trace, "lock") :
          /\ desc.paged_attn_cfg # None
          /\ \E j \in 1 .. (i - 1) : trace[j] = Call("load_model_from_hf", TRUE)
          /\ i < Len(trace) => trace[i + 1].call = "get_metadata"
    /\ lock_owner = "build" <=> pc = "read"
    /\ lock_owner = "build" => trace[Len(trace)].call = "lock"
    /\ (pc \in RunnerStages \cup {"derive", "done"} \/ runner # NoRunner)
          => lock_owner # "build"

\* A build took the lock, read the metadata and finished, the lock released
LockWitness ==
    /\ Calls(trace, "lock") # {}
    /\ Calls(trace, "get_metadata") # {}
    /\ result = "Ok"
    /\ lock_owner = "free"

----------------------------------------------------------------------------
\* Cache toggles.

\* C8: in both modalities the finished runner has prefix caching disabled if and
\* only if prefix_cache_n is None; with Some(n) the depth given to the runner is
\* exactly n, and with None with_prefix_cache_n is not called at all.
PrefixCacheFollowsDescriptor ==
    /\ result = "Ok" =>
          /\ runner.no_prefix_cache = Some(desc.prefix_cache_n = None)
          /\ runner.prefix_cache_n = desc.prefix_cache_n
    /\ runner # NoRunner => runner.prefix_cache_n \in {None, desc.prefix_cache_n}
    /\ Calls(trace, "with_prefix_cache_n") # {} => desc.prefix_cache_n # None

\* A finished vision runner with prefix caching enabled at the largest depth
PrefixCacheWitness ==
    /\ desc.modality = "Vision"
    /\ desc.prefix_cache_n = Some(MaxPrefixCacheN)
    /\ result = "Ok"
    /\ runner.no_prefix_cache = Some(FALSE)
    /\ runner.prefix_cache_n = Some(MaxPrefixCacheN)

\* C9: the vision loader builder is given no cache-disable flag and the vision
\* runner's no-KV-cache toggle is false whatever the descriptor holds; the text
\* loader builder and the text runner's toggle both get the caller's no_kv_cache.
KvCacheToggleByModality ==
    /\ loader_args # NoArgs =>
          IF desc.modality = "Vision"
          THEN /\ loader_args.kind = "VisionLoaderBuilder"
               /\ "no_kv_cache" \notin DOMAIN loader_args
          ELSE /\ loader_args.kind = "NormalLoaderBuilder"
               /\ loader_args.no_kv_cache = desc.no_kv_cache
    /\ runner # NoRunner =>
          runner.no_kv_cache \in
              {None, Some(IF desc.modality = "Vision" THEN FALSE ELSE desc.no_kv_cache)}
    /\ result = "Ok" => runner.no_kv_cache # None

\* A finished vision runner keeps the KV cache though the descriptor says no_kv_cache
KvCacheWitness ==
    /\ desc.modality = "Vision"
    /\ desc.no_kv_cache
    /\ result = "Ok"
    /\ runner.no_kv_cache = Some(FALSE)

----------------------------------------------------------------------------
\* Device resolution.

\* C10: with an explicit device, loading gets exactly that device and build
\* never fails on the device probe; without one, loading gets the device the
\* probe seeded with force_cpu returned, and a probe error ends build before
\* loading is attempted.
ExplicitDeviceIgnoresProbe ==
    /\ (load_args # NoArgs /\ desc.device # None) =>
          load_args.device = Unwrap(desc.device)
    /\ desc.device # None => ~(result = "Err" /\ err = "device")
    /\ (load_args # NoArgs /\ desc.device = None) =>
          /\ probe_seed = Some(desc.force_cpu)
          /\ probed # None
          /\ load_args.device = Unwrap(probed)
    /\ (result = "Err" /\ err = "device") => load_args = NoArgs

====
